---- MODULE Spec2Model ----
(***************************************************************************)
(* The multi-module regression orchestrator of UVVM                         *)
(* (release/regression_test/run_regression.py) as a state machine.          *)
(*                                                                          *)
(* A python string is a sequence of one-character strings, so that lower(), *)
(* strip(), rstrip(), replace() and rfind() are computed, not assumed.      *)
(* A directory is a sequence of path components, each a python string.      *)
(***************************************************************************)
EXTENDS Integers, Sequences, FiniteSets, TLC

VARIABLES
  config,             \* module_list.txt: the lines `for line in open(...)` yields
  modules,            \* main: modules
  pc,                 \* main: position of the interpreter
  idx,                \* main: number of modules the loop has started (1-based idx)
  num_failing_tests,  \* main: the accumulator
  cwd,                \* the process's working directory
  fs,                 \* the module directories and their sim workspaces
  proc,               \* the runner subprocess check_call waits for, if any
  shown,              \* stdout: the "Num failing tests in regression run" values
  runs,               \* per finished module: what its runner did
  launches,           \* per launched runner: where it was launched
  prep_log,           \* per delete_sim_content call: before, after, "Removed:" line
  summary,            \* stdout: what present_results printed
  exit_status,        \* the orchestrator's process exit status, once terminated
  calls,              \* number of cd_to_module calls made by the harness
  tests,              \* a module runner script: its Testbench / HDLRegression counters
  sims,               \* simulate_component.py: the subprocess.run results so far
  sim_log,            \* simulate_component.py: what sim_log has been given
  status_txt          \* simulate_component.py: status.txt, absent or its content

\* The state of the single-module scripts, which the orchestrator never touches.
script_vars == <<tests, sims, sim_log, status_txt>>

vars == <<config, modules, pc, idx, num_failing_tests, cwd, fs, proc, shown,
          runs, launches, prep_log, summary, exit_status, calls, script_vars>>

----------------------------------------------------------------------------
(* Bounds *)

MaxModules == 3     \* lines of module_list.txt in an orchestrator run
MaxLines == 2       \* lines of module_list.txt when get_module_list is checked alone
MaxLineLen == 2     \* characters of a line before its terminator
MaxEntries == 3     \* entries a prior run left in one workspace
MaxCalls == 2       \* successive cd_to_module calls when it is checked alone

----------------------------------------------------------------------------
(* Python strings *)

NL == "\n"
SLASH == "/"
BACKSLASH == "\\"
DOT == "."

Whitespace == {" ", "\t", "\n", "\r"}

UpperChars ==
  <<"A","B","C","D","E","F","G","H","I","J","K","L","M",
    "N","O","P","Q","R","S","T","U","V","W","X","Y","Z">>

LowerChars ==
  <<"a","b","c","d","e","f","g","h","i","j","k","l","m",
    "n","o","p","q","r","s","t","u","v","w","x","y","z">>

LowerChar(c) ==
  IF \E i \in 1..Len(UpperChars) : UpperChars[i] = c
  THEN LowerChars[CHOOSE i \in 1..Len(UpperChars) : UpperChars[i] = c]
  ELSE c

\* str.lower()
Lower(s) == [i \in 1..Len(s) |-> LowerChar(s[i])]

\* c.strip() of a one-character string c: "" when c is whitespace
Strip1(c) == IF c \in Whitespace THEN "" ELSE c

\* s.rstrip('\n')
RECURSIVE RStripNL(_)
RStripNL(s) ==
  IF s # <<>> /\ s[Len(s)] = NL THEN RStripNL(SubSeq(s, 1, Len(s) - 1)) ELSE s

\* s.replace('\\', '/')
ReplaceBackslash(s) == [i \in 1..Len(s) |-> IF s[i] = BACKSLASH THEN SLASH ELSE s[i]]

\* s.rfind('/'), 0-based, -1 when absent
RFindSlash(s) ==
  IF \E i \in 1..Len(s) : s[i] = SLASH
  THEN (CHOOSE i \in 1..Len(s) : s[i] = SLASH /\ \A j \in (i+1)..Len(s) : s[j] # SLASH) - 1
  ELSE -1

\* s[k:] for a 0-based k
SliceFrom(s, k) == SubSeq(s, k + 1, Len(s))

\* s.split('/')
RECURSIVE SplitSlash(_)
SplitSlash(s) ==
  IF \E i \in 1..Len(s) : s[i] = SLASH
  THEN LET i == CHOOSE i \in 1..Len(s) : s[i] = SLASH /\ \A j \in 1..(i-1) : s[j] # SLASH
       IN  <<SubSeq(s, 1, i - 1)>> \o SplitSlash(SubSeq(s, i + 1, Len(s)))
  ELSE <<s>>

----------------------------------------------------------------------------
(* Module Registry: get_module_list *)

RECURSIVE get_module_list(_)
get_module_list(lines) ==
  IF lines = <<>> THEN <<>>
  ELSE LET line == Head(lines)
       IN  IF ~(Strip1(line[1]) = "#")
           THEN <<RStripNL(Lower(line))>> \o get_module_list(Tail(lines))
           ELSE get_module_list(Tail(lines))

\* The lines a text file yields: every line ends with its terminator, except
\* that the last may lack it when it is not empty.
FileLines(contents, terminated) ==
  [i \in 1..Len(contents) |->
     IF i < Len(contents) \/ terminated THEN contents[i] \o <<NL>> ELSE contents[i]]

SeqsUpTo(S, n) == UNION {[1..k -> S] : k \in 0..n}

----------------------------------------------------------------------------
(* The file system: module directories under the repository root, each with *)
(* or without a sim workspace. An entry of a workspace has a name and a     *)
(* kind: a regular file, a directory, or something that is neither (a       *)
(* dangling symbolic link, a FIFO). What a directory holds below its top    *)
(* level is not modelled: rmtree removes it whole or fails.                 *)

SIM == <<"s","i","m">>
RELEASE == <<"r","e","l","e","a","s","e">>
REGRESSION_TEST == <<"r","e","g","r","e","s","s","i","o","n","_","t","e","s","t">>

\* The directory run_regression.py is started in: it opens module_list.txt there.
StartDir == <<RELEASE, REGRESSION_TEST>>

MOD_A == <<"a">>
MOD_B == <<"b">>
DirNames == {MOD_A, MOD_B}

\* keep_files = ["bitvis_irqc.mpf"]
keep_files == << <<"b","i","t","v","i","s","_","i","r","q","c",".","m","p","f">> >>

A_TXT == [name |-> <<"A",".","t","x","t">>, kind |-> "file"]
B_LOG == [name |-> <<"B",".","l","o","g">>, kind |-> "file"]
MPF_LOWER ==
  [name |-> <<"b","i","t","v","i","s","_","i","r","q","c",".","m","p","f">>, kind |-> "file"]
MPF_MIXED ==
  [name |-> <<"B","i","t","v","i","s","_","I","R","Q","C",".","M","P","F">>, kind |-> "file"]
HIDDEN == [name |-> <<".","l","o","c","k">>, kind |-> "file"]
WORK_DIR == [name |-> <<"w","o","r","k">>, kind |-> "dir"]
FIFO == [name |-> <<"s","o","c","k","e","t">>, kind |-> "other"]
BS_NAME == [name |-> <<"t","m","p","\\","o","u","t">>, kind |-> "file"]

EntryUniverse == {A_TXT, B_LOG, MPF_LOWER, MPF_MIXED, HIDDEN, WORK_DIR, FIFO, BS_NAME}

\* sim_path = '../../' + module.lower() + '/sim'
\* A slip: the path of one module's workspace, whatever module is asked for.
sim_path_fixed(module) ==
  <<".",".","/",".",".","/">> \o (IF Len(module) = 0 THEN module ELSE MOD_A)
    \o <<"/">> \o SIM

sim_path(module) == <<".",".","/",".",".","/">> \o Lower(module) \o <<"/">> \o SIM

\* The directory a relative path names, from directory dir.
RECURSIVE Walk(_, _)
Walk(dir, comps) ==
  IF comps = <<>> THEN dir
  ELSE LET c == Head(comps)
       IN  IF c = <<DOT, DOT>>
           THEN Walk(IF dir = <<>> THEN dir ELSE SubSeq(dir, 1, Len(dir) - 1), Tail(comps))
           ELSE IF c = <<>> \/ c = <<DOT>>
           THEN Walk(dir, Tail(comps))
           ELSE Walk(Append(dir, c), Tail(comps))

Resolve(dir, path) == Walk(dir, SplitSlash(path))

IsWorkspaceDir(d) == Len(d) = 2 /\ d[2] = SIM /\ d[1] \in DirNames

\* "nomodule": the module directory is missing; "nosim": it has no sim
\* directory; "present": the sim directory exists.
SimState(d) == IF IsWorkspaceDir(d) THEN fs[d[1]].dir ELSE "nomodule"

Entries(d) == IF IsWorkspaceDir(d) /\ fs[d[1]].dir = "present" THEN fs[d[1]].entries ELSE {}

\* glob.glob(path + "/*"): a leading dot is matched by no "*"
GlobStar(entries) == {e \in entries : e.name[1] # DOT}

\* file = file.replace('\\', '/')
FileOf(path, e) == ReplaceBackslash(path \o <<SLASH>> \o e.name)

\* A slip: the basename is compared as it is spelt, with no lower().
FilenameOfAsSpelt(file) == SliceFrom(file, RFindSlash(file) + 1)

\* filename = file[file.rfind('/') + 1:].lower()
FilenameOf(file) == Lower(SliceFrom(file, RFindSlash(file) + 1))

InKeepFiles(filename) == \E i \in 1..Len(keep_files) : keep_files[i] = filename

\* os.path.isfile(file), os.path.isdir(file): file names entry e only if the
\* replace left the path as glob returned it.
IsFile(path, e) == FileOf(path, e) = path \o <<SLASH>> \o e.name /\ e.kind = "file"
IsDir(path, e) == FileOf(path, e) = path \o <<SLASH>> \o e.name /\ e.kind = "dir"

\* The entries os.remove or shutil.rmtree is called on.
Attempted(path, entries) ==
  {e \in GlobStar(entries) :
     /\ ~InKeepFiles(FilenameOf(FileOf(path, e)))
     /\ (IsFile(path, e) \/ IsDir(path, e))}

\* One iteration of the loop of delete_sim_content; fails are the entries
\* whose removal raises OSError.
DeleteStep(path, e, fails, st) ==
  IF ~InKeepFiles(FilenameOf(FileOf(path, e)))
  THEN IF IsFile(path, e)
       THEN IF e \in fails
            THEN [st EXCEPT !.warned = @ \cup {e}]
            ELSE [st EXCEPT !.entries = @ \ {e},
                            !.num_files_deleted = @ + 1]
       ELSE IF IsDir(path, e)
       THEN IF e \in fails
            THEN [st EXCEPT !.warned = @ \cup {e}]
            ELSE [st EXCEPT !.entries = @ \ {e},
                            !.num_paths_deleted = @ + 1]
       ELSE st
  ELSE [st EXCEPT !.kept = @ \cup {e}]

\* A slip: the try surrounds the loop, so the first removal that raises ends it.
RECURSIVE DeleteLoopTryOutside(_, _, _, _)
DeleteLoopTryOutside(path, files, fails, st) ==
  IF files = {} THEN st
  ELSE LET e == CHOOSE e \in files : TRUE
           nxt == DeleteStep(path, e, fails, st)
       IN  IF nxt.warned # st.warned THEN nxt
           ELSE DeleteLoopTryOutside(path, files \ {e}, fails, nxt)

RECURSIVE DeleteLoop(_, _, _, _)
DeleteLoop(path, files, fails, st) ==
  IF files = {} THEN st
  ELSE LET e == CHOOSE e \in files : TRUE
       IN  DeleteLoop(path, files \ {e}, fails, DeleteStep(path, e, fails, st))

delete_sim_content(path, entries, fails) ==
  DeleteLoop(path, GlobStar(entries), fails,
             [entries |-> entries, num_files_deleted |-> 0, num_paths_deleted |-> 0,
              kept |-> {}, warned |-> {}])

----------------------------------------------------------------------------
(* cd_to_module *)

\* An exception nothing catches ends the interpreter with a traceback and
\* exit status 1; present_results is not reached.
Raise ==
  /\ pc' = "aborted"
  /\ exit_status' = <<1>>

\* cd_to_module(module); on return the interpreter is at ret.
cd_to_module(module, ret) ==
  LET path == sim_path(module)
      dir == Resolve(cwd, path)
  IN  IF Len(module) = 0
      THEN /\ pc' = ret
           /\ UNCHANGED <<fs, cwd, prep_log, exit_status>>
      ELSE IF SimState(dir) = "nomodule"
      THEN \* os.mkdir(sim_path) raises FileNotFoundError: the parent is missing
           /\ Raise
           /\ UNCHANGED <<fs, cwd, prep_log>>
      ELSE LET before == Entries(dir)
           IN  \E fails \in SUBSET Attempted(path, before) :
                 LET st == delete_sim_content(path, before, fails)
                 IN  /\ fs' = [fs EXCEPT ![dir[1]] =
                                 [dir |-> "present", entries |-> st.entries]]
                     /\ cwd' = dir
                     /\ prep_log' = Append(prep_log,
                          [idx |-> idx, module |-> module, dir |-> dir,
                           created |-> SimState(dir) = "nosim",
                           before |-> before, after |-> st.entries,
                           files |-> st.num_files_deleted,
                           dirs |-> st.num_paths_deleted,
                           kept |-> st.kept, warned |-> st.warned])
                     /\ pc' = ret
                     /\ UNCHANGED exit_status

----------------------------------------------------------------------------
(* simulate_module and the runner subprocess *)

\* Exit statuses a runner process ends with: a failing-test count, or the
\* negated signal number subprocess reports for a child a signal killed.
ExitStatuses == {-9, 0, 2, 3}

\* The status python exits with when it cannot open the script it is given.
CantOpenScriptStatus == 2

\* "../../" + str(module) + "/internal_script/run.py"
\* A slip: the runner's path is written as seen from the module directory,
\* not from its sim directory.
runner_path_one_up(module) ==
  <<".",".","/">> \o module
    \o <<"/","i","n","t","e","r","n","a","l","_","s","c","r","i","p","t",
         "/","r","u","n",".","p","y">>

runner_path(module) ==
  <<".",".","/",".",".","/">> \o module
    \o <<"/","i","n","t","e","r","n","a","l","_","s","c","r","i","p","t",
         "/","r","u","n",".","p","y">>

\* What check_call makes of the child's exit status: it returns on 0, and
\* raises CalledProcessError otherwise, whose returncode simulate_module returns.
simulate_result(returncode) == IF returncode = 0 THEN 0 ELSE returncode

\* A slip: the total is assigned, not added to.
AccumulateAssign(total, result) == result

\* num_failing_tests += simulate_module(module)
Accumulate(total, result) == total + result

----------------------------------------------------------------------------
(* main *)

\* modules = get_module_list(); num_failing_tests = 0
GetModuleList ==
  /\ pc = "start"
  /\ modules' = get_module_list(config)
  /\ num_failing_tests' = 0
  /\ pc' = "loop"
  /\ UNCHANGED <<config, idx, cwd, fs, proc, shown, runs, launches, prep_log,
                 summary, exit_status, calls>>
  /\ UNCHANGED script_vars

\* for idx, module in enumerate(modules): the three prints
Banner ==
  /\ pc = "loop"
  /\ idx < Len(modules)
  /\ idx' = idx + 1
  /\ shown' = Append(shown, num_failing_tests)
  /\ pc' = "cd"
  /\ UNCHANGED <<config, modules, num_failing_tests, cwd, fs, proc, runs, launches,
                 prep_log, summary, exit_status, calls>>
  /\ UNCHANGED script_vars

\* cd_to_module(module)
CdToModule ==
  /\ pc = "cd"
  /\ cd_to_module(modules[idx], "simulate")
  /\ UNCHANGED <<config, modules, idx, num_failing_tests, proc, shown, runs,
                 launches, summary, calls>>
  /\ UNCHANGED script_vars

\* A slip: the loop is left at the first failing module.
AfterModuleBreak(result) == IF result # 0 THEN "report" ELSE "loop"

\* The loop goes on to its next iteration, whatever was returned.
AfterModule(result) == "loop"

\* A slip: a module without a name is returned as one failing test.
SimulateEmptyAsFailure ==
  /\ pc = "simulate"
  /\ Len(modules[idx]) = 0
  /\ num_failing_tests' = Accumulate(num_failing_tests, 1)
  /\ runs' = Append(runs, [idx |-> idx, module |-> modules[idx], kind |-> "skipped",
                           status |-> 1, result |-> 1])
  /\ pc' = AfterModule(1)
  /\ UNCHANGED <<config, modules, idx, cwd, fs, proc, shown, launches, prep_log,
                 summary, exit_status, calls>>
  /\ UNCHANGED script_vars

\* simulate_module(module) with an empty module: return 0
SimulateEmpty ==
  /\ pc = "simulate"
  /\ Len(modules[idx]) = 0
  /\ num_failing_tests' = Accumulate(num_failing_tests, 0)
  /\ runs' = Append(runs, [idx |-> idx, module |-> modules[idx], kind |-> "skipped",
                           status |-> 0, result |-> 0])
  /\ pc' = AfterModule(0)
  /\ UNCHANGED <<config, modules, idx, cwd, fs, proc, shown, launches, prep_log,
                 summary, exit_status, calls>>
  /\ UNCHANGED script_vars

\* subprocess.check_call starts the child: the interpreter, given the
\* runner's path. The child runs the script ("runs"), finds no script it can
\* open ("noscript"), or never ends ("hangs").
SimulateLaunch ==
  /\ pc = "simulate"
  /\ Len(modules[idx]) # 0
  /\ \E kind \in {"runs", "noscript", "hangs"} :
       /\ proc' = <<[kind |-> kind, module |-> modules[idx]]>>
       /\ launches' = Append(launches,
            [idx |-> idx, module |-> modules[idx], cwd |-> cwd,
             script |-> Resolve(cwd, runner_path(modules[idx])),
             workspace |-> Entries(cwd)])
  /\ pc' = "waiting"
  /\ UNCHANGED <<config, modules, idx, num_failing_tests, cwd, fs, shown, runs,
                 prep_log, summary, exit_status, calls>>
  /\ UNCHANGED script_vars

\* subprocess.check_call cannot start the child at all: Popen raises OSError,
\* which simulate_module does not catch.
SimulateLaunchError ==
  /\ pc = "simulate"
  /\ Len(modules[idx]) # 0
  /\ Raise
  /\ runs' = Append(runs, [idx |-> idx, module |-> modules[idx], kind |-> "oserror",
                           status |-> 0, result |-> 0])
  /\ UNCHANGED <<config, modules, idx, num_failing_tests, cwd, fs, proc, shown,
                 launches, prep_log, summary, calls>>
  /\ UNCHANGED script_vars

\* The child ends; check_call returns or raises CalledProcessError, and
\* main adds what simulate_module returns.
RunnerExit ==
  /\ pc = "waiting"
  /\ proc[1].kind # "hangs"
  /\ \E status \in (IF proc[1].kind = "noscript" THEN {CantOpenScriptStatus}
                    ELSE ExitStatuses) :
       LET result == simulate_result(status)
       IN  /\ num_failing_tests' = Accumulate(num_failing_tests, result)
           /\ runs' = Append(runs, [idx |-> idx, module |-> modules[idx],
                                    kind |-> proc[1].kind, status |-> status,
                                    result |-> result])
           /\ pc' = AfterModule(result)
  /\ proc' = <<>>
  /\ UNCHANGED <<config, modules, idx, cwd, fs, shown, launches, prep_log, summary,
                 exit_status, calls>>
  /\ UNCHANGED script_vars

\* A slip: the loop may be left while modules remain.
LoopExitEarly ==
  /\ pc = "loop"
  /\ pc' = "report"
  /\ UNCHANGED <<config, modules, idx, num_failing_tests, cwd, fs, proc, shown, runs,
                 launches, prep_log, summary, exit_status, calls>>
  /\ UNCHANGED script_vars

\* The loop is exhausted.
LoopExit ==
  /\ pc = "loop"
  /\ idx >= Len(modules)
  /\ pc' = "report"
  /\ UNCHANGED <<config, modules, idx, num_failing_tests, cwd, fs, proc, shown, runs,
                 launches, prep_log, summary, exit_status, calls>>
  /\ UNCHANGED script_vars

present_results(n) ==
  IF n > 0
  THEN [arg |-> n, verdict |-> "FAILED", count |-> n]
  ELSE [arg |-> n, verdict |-> "SUCCEEDED", count |-> 0]

\* present_results(num_failing_tests)
PresentResults ==
  /\ pc = "report"
  /\ summary' = <<present_results(num_failing_tests)>>
  /\ pc' = "returned"
  /\ UNCHANGED <<config, modules, idx, num_failing_tests, cwd, fs, proc, shown, runs,
                 launches, prep_log, exit_status, calls>>
  /\ UNCHANGED script_vars

\* The status the interpreter exits with once main() has returned: the
\* script calls no sys.exit, so it is 0.
main_exit_status(total) == 0

\* if __name__ == "__main__": main()
Exit ==
  /\ pc = "returned"
  /\ exit_status' = <<main_exit_status(num_failing_tests)>>
  /\ pc' = "done"
  /\ UNCHANGED <<config, modules, idx, num_failing_tests, cwd, fs, proc, shown, runs,
                 launches, prep_log, summary, calls>>
  /\ UNCHANGED script_vars

----------------------------------------------------------------------------
(* The orchestrator run *)

\* No single-module script is running.
NoScript ==
  /\ tests = <<>>
  /\ sims = <<>>
  /\ sim_log = <<>>
  /\ status_txt = <<>>

\* module_list.txt of a run: names of the module directories in either case,
\* and blank lines.
RunLines == {<<"a">>, <<"B">>, <<>>}

RunConfigs == {FileLines(c, TRUE) : c \in SeqsUpTo(RunLines, MaxModules)}

\* What earlier runs left of a module: no module directory, no sim directory,
\* or a sim directory with a protected file, a log and a hidden lock file.
W_NOMODULE == [dir |-> "nomodule", entries |-> {}]
W_NOSIM == [dir |-> "nosim", entries |-> {}]
W_LEFTOVERS == [dir |-> "present", entries |-> {MPF_MIXED, A_TXT, HIDDEN}]

FsOf(wa, wb) == [d \in DirNames |-> IF d = MOD_A THEN wa ELSE wb]

RunFileSystems ==
  { FsOf(W_LEFTOVERS, W_LEFTOVERS),
    FsOf(W_LEFTOVERS, W_NOSIM),
    FsOf(W_NOSIM, W_LEFTOVERS),
    FsOf(W_LEFTOVERS, W_NOMODULE),
    FsOf(W_NOMODULE, W_LEFTOVERS) }

Init ==
  /\ config \in RunConfigs
  /\ modules = <<>>
  /\ pc = "start"
  /\ idx = 0
  /\ num_failing_tests = 0
  /\ cwd = StartDir
  /\ fs \in RunFileSystems
  /\ proc = <<>>
  /\ shown = <<>>
  /\ runs = <<>>
  /\ launches = <<>>
  /\ prep_log = <<>>
  /\ summary = <<>>
  /\ exit_status = <<>>
  /\ calls = 0
  /\ NoScript

Next ==
  \/ GetModuleList
  \/ Banner
  \/ CdToModule
  \/ SimulateEmpty
  \/ SimulateLaunch
  \/ SimulateLaunchError
  \/ RunnerExit
  \/ LoopExit
  \/ PresentResults
  \/ Exit

Spec == Init /\ [][Next]_vars

----------------------------------------------------------------------------
(* get_module_list alone, on every small module_list.txt *)

LineChars == {"B", "#", " "}

LineContents == SeqsUpTo(LineChars, MaxLineLen)

AllConfigs ==
  {FileLines(c, t) : c \in SeqsUpTo(LineContents, MaxLines), t \in BOOLEAN}
    \ {l \in {FileLines(c, FALSE) : c \in SeqsUpTo(LineContents, MaxLines)} :
         l # <<>> /\ l[Len(l)] = <<>>}

InitRegistry ==
  /\ config \in AllConfigs
  /\ modules = <<>>
  /\ pc = "start"
  /\ idx = 0
  /\ num_failing_tests = 0
  /\ cwd = StartDir
  /\ fs = FsOf(W_NOSIM, W_NOSIM)
  /\ proc = <<>>
  /\ shown = <<>>
  /\ runs = <<>>
  /\ launches = <<>>
  /\ prep_log = <<>>
  /\ summary = <<>>
  /\ exit_status = <<>>
  /\ calls = 0
  /\ NoScript

NextRegistry == GetModuleList

SpecRegistry == InitRegistry /\ [][NextRegistry]_vars

----------------------------------------------------------------------------
(* cd_to_module alone, called again and again for one module, on every      *)
(* small workspace                                                          *)

PrepModules == {MOD_A, <<"A">>, <<>>}

PrepWorkspaces ==
  {W_NOMODULE, W_NOSIM}
    \cup {[dir |-> "present", entries |-> S] :
            S \in {T \in SUBSET EntryUniverse : Cardinality(T) <= MaxEntries}}

InitPrepare ==
  /\ config = <<>>
  /\ modules \in {<<m>> : m \in PrepModules}
  /\ pc = "harness"
  /\ idx = 0
  /\ num_failing_tests = 0
  /\ cwd = StartDir
  /\ fs \in {FsOf(w, W_NOSIM) : w \in PrepWorkspaces}
  /\ proc = <<>>
  /\ shown = <<>>
  /\ runs = <<>>
  /\ launches = <<>>
  /\ prep_log = <<>>
  /\ summary = <<>>
  /\ exit_status = <<>>
  /\ calls = 0
  /\ NoScript

PrepareCall ==
  /\ pc = "harness"
  /\ calls < MaxCalls
  /\ cd_to_module(modules[1], "harness")
  /\ calls' = calls + 1
  /\ UNCHANGED <<config, modules, idx, num_failing_tests, proc, shown, runs,
                 launches, summary>>
  /\ UNCHANGED script_vars

NextPrepare == PrepareCall

SpecPrepare == InitPrepare /\ [][NextPrepare]_vars

----------------------------------------------------------------------------
(* Properties *)

\* The sum of the exit statuses of the first n finished modules.
RECURSIVE SumStatuses(_, _)
SumStatuses(r, n) == IF n = 0 THEN 0 ELSE SumStatuses(r, n - 1) + r[n].status

\* The aggregate failing-test count of the run so far.
Aggregate == SumStatuses(runs, Len(runs))

\* C1: when the run has terminated after its report, the process exit
\* status is the aggregate failing-test count, so 0 only on overall success
\* (stated here for the runs in which every exit status is a count).
C1_ExitStatusIsAggregate ==
  (pc = "done" /\ \A k \in 1..Len(runs) : runs[k].status >= 0)
    => exit_status = <<Aggregate>>

\* C2: the running total printed before module k is the sum of the counts of
\* the modules before it (0 before the first), and the value handed to
\* present_results is the sum of the counts of all modules.
C2_AggregationLaw ==
  /\ \A k \in 1..Len(shown) : Len(runs) >= k - 1 /\ shown[k] = SumStatuses(runs, k - 1)
  /\ summary # <<>> =>
       /\ Len(runs) = Len(modules)
       /\ summary[1].arg = SumStatuses(runs, Len(modules))

\* The spec's example: counts 2, 0, 3 give running totals 0, 2, 2 and 5.
C2_Witness ==
  /\ pc = "returned"
  /\ [k \in 1..Len(runs) |-> runs[k].status] = <<2, 0, 3>>
  /\ shown = <<0, 2, 2>>
  /\ summary[1].arg = 5

\* C3: the summary says SUCCEEDED exactly when the aggregate is 0, and
\* otherwise FAILED with the aggregate as its count.
C3_SummaryIffAggregate ==
  summary # <<>> =>
    /\ summary[1].verdict = "SUCCEEDED" <=> Aggregate = 0
    /\ summary[1].verdict = "SUCCEEDED" => summary[1].count = 0
    /\ summary[1].verdict # "SUCCEEDED" =>
         summary[1].verdict = "FAILED" /\ summary[1].count = Aggregate

Reported == pc \in {"report", "returned", "done"}

PreparedAt(k) == \E i \in 1..Len(prep_log) : prep_log[i].idx = k

LaunchedAt(k) == \E i \in 1..Len(launches) : launches[i].idx = k

\* The runner of module k ended with a non-zero exit status.
FailedAt(k) == k <= Len(runs) /\ runs[k].kind = "runs" /\ runs[k].status # 0

C4_AllProcessedAtReport ==
  Reported =>
    \A k \in 1..Len(modules) :
      /\ k <= Len(runs)
      /\ Len(modules[k]) # 0 => PreparedAt(k) /\ LaunchedAt(k)

C4_FailureGoesOn ==
  (pc = "waiting" /\ pc' # "waiting") =>
     /\ pc' = "loop"
     /\ idx' = idx
     /\ modules' = modules

\* C4: a runner's non-zero exit status ends neither the loop nor the run:
\* the step that takes it in leads to the head of the loop with the next
\* module due, and the report is reached only when every module has been
\* prepared and launched.
C4_NoShortCircuit == []C4_AllProcessedAtReport /\ [][C4_FailureGoesOn]_vars

\* Three modules, the first and the second failing, all three prepared and
\* launched, and the report printed.
C4_Witness ==
  /\ pc = "done"
  /\ Len(modules) = 3
  /\ FailedAt(1) /\ FailedAt(2)
  /\ \A k \in 1..3 : PreparedAt(k) /\ LaunchedAt(k)
  /\ summary # <<>>

\* The sum of what was returned for the runners that were launched and ran
\* their script, among the first n finished modules.
RECURSIVE SumReported(_, _)
SumReported(r, n) ==
  IF n = 0 THEN 0
  ELSE SumReported(r, n - 1) + (IF r[n].kind = "runs" THEN r[n].status ELSE 0)

\* C5: the running total holds reported failing-test counts only: a runner
\* that could not be launched adds no number to it.
C5_LaunchFailureNotCounted ==
  num_failing_tests = SumReported(runs, Len(runs))

\* C6: with three modules, when the runner of module 2 could not be
\* launched the run goes on to module 3: that failure does not end it.
C6_LaunchFailureGoesOn ==
  (/\ Len(modules) = 3
   /\ idx = 2
   /\ Len(runs) = 2
   /\ runs[1].kind = "runs"
   /\ runs[2].kind \in {"noscript", "oserror"})
  => pc # "aborted"

\* The lower-cased basename of the entry is in the allow-list.
Protected(e) == \E i \in 1..Len(keep_files) : keep_files[i] = Lower(e.name)

LastPrep == prep_log[Len(prep_log)]

\* C7: while a module's runner is being invoked, the working directory is
\* the module's workspace, it exists, and it holds protected entries only
\* (stated here for the runs in which no removal raised).
C7_WorkspaceCleanAtInvoke ==
  (pc = "waiting" /\ LastPrep.warned = {}) =>
     /\ SimState(cwd) = "present"
     /\ \A e \in Entries(cwd) : Protected(e)

\* A line without its terminator.
Content(line) ==
  IF line # <<>> /\ line[Len(line)] = NL THEN SubSeq(line, 1, Len(line) - 1) ELSE line

RECURSIVE LStrip(_)
LStrip(s) == IF s # <<>> /\ s[1] \in Whitespace THEN LStrip(Tail(s)) ELSE s

\* The first non-whitespace character of the line is "#".
IsCommentLine(line) == LStrip(line) # <<>> /\ LStrip(line)[1] = "#"

RECURSIVE ExpectedModules(_)
ExpectedModules(lines) ==
  IF lines = <<>> THEN <<>>
  ELSE IF IsCommentLine(Head(lines)) \/ Content(Head(lines)) = <<>>
       THEN ExpectedModules(Tail(lines))
       ELSE <<Lower(Content(Head(lines)))>> \o ExpectedModules(Tail(lines))

NotEmpty(m) == m # <<>>

\* C8: the module list is the configuration's lines, in order, without the
\* lines whose first non-whitespace character is "#", each lower-cased and
\* without its terminator, and nothing else (stated here of the entries that
\* have a name: what an empty line yields is left aside).
C8_RegistryFilter ==
  pc = "loop" => SelectSeq(modules, NotEmpty) = ExpectedModules(config)

\* C9: a prepare of an existing workspace leaves exactly its protected
\* entries, and its "Removed:" line counts the files and the directories
\* that are gone (stated here for the calls in which no removal raised).
C9_PrepareRemovesUnprotected ==
  \A i \in 1..Len(prep_log) :
    LET p == prep_log[i]
    IN  (~p.created /\ p.warned = {}) =>
          /\ p.after = {e \in p.before : Protected(e)}
          /\ p.files = Cardinality({e \in p.before \ p.after : e.kind = "file"})
          /\ p.dirs = Cardinality({e \in p.before \ p.after : e.kind = "dir"})

RemovesNothing(p) == p.after = p.before /\ p.files = 0 /\ p.dirs = 0

\* A prepare of a workspace with protected entries only removes nothing.
PrepareOfCleanIsNoop ==
  \A i \in 1..Len(prep_log) :
    (\A e \in prep_log[i].before : Protected(e)) => RemovesNothing(prep_log[i])

C11_RunningTotalMonotone ==
  \A k \in 1..(Len(shown) - 1) : shown[k + 1] >= shown[k]

\* The run ended in an exception raised while a workspace was being prepared:
\* the module at idx has no simulate_module result.
PrepareAborted == pc = "aborted" /\ Len(runs) < idx

\* C13: a prepare that finds no workspace creates it, missing parents
\* included, reports no removal, and never ends the run.
C13_PrepareCreatesWorkspace ==
  /\ ~PrepareAborted
  /\ \A i \in 1..Len(prep_log) :
       prep_log[i].created =>
         /\ prep_log[i].files = 0 /\ prep_log[i].dirs = 0
         /\ SimState(prep_log[i].dir) = "present"

----------------------------------------------------------------------------
(* A run over workspaces a crashed simulator left full *)

\* module_list.txt: a module, a blank line, a module.
SweepConfigs == {FileLines(<<<<"a">>, <<>>, <<"B">>>>, TRUE)}

\* Entries of the first workspace: files and a directory the loop removes,
\* next to a protected file.
SweepEntries == {A_TXT, B_LOG, WORK_DIR, MPF_MIXED}

SweepWorkspaces ==
  {[dir |-> "present", entries |-> S] :
     S \in {T \in SUBSET SweepEntries : Cardinality(T) <= MaxEntries}}

InitSweep ==
  /\ config \in SweepConfigs
  /\ modules = <<>>
  /\ pc = "start"
  /\ idx = 0
  /\ num_failing_tests = 0
  /\ cwd = StartDir
  /\ fs \in {FsOf(w, W_LEFTOVERS) : w \in SweepWorkspaces}
  /\ proc = <<>>
  /\ shown = <<>>
  /\ runs = <<>>
  /\ launches = <<>>
  /\ prep_log = <<>>
  /\ summary = <<>>
  /\ exit_status = <<>>
  /\ calls = 0
  /\ NoScript

SpecSweep == InitSweep /\ [][Next]_vars

\* What a prepare in which removals raised did with the other entries: each
\* entry the glob lists was inspected, the protected ones kept, each of the
\* others removed and counted, the failing ones left behind.
RestStillRemoved(p) ==
  LET tried == Attempted(sim_path(p.module), p.before)
  IN  /\ p.warned \subseteq tried
      /\ p.after = p.before \ (tried \ p.warned)
      /\ p.kept = GlobStar(p.before) \ tried
      /\ p.files + p.dirs = Cardinality(tried \ p.warned)

\* The runner of module k was invoked: the child was started, or starting it
\* raised.
InvokedAt(k) ==
  \/ LaunchedAt(k)
  \/ k <= Len(runs) /\ runs[k].kind = "oserror"

\* C12: a removal that raises during prepare is a warning only: the other
\* entries are still inspected and removed, the prepare returns, the module's
\* runner is invoked, and the modules after it are processed.
C12_RemovalFailureIsWarning ==
  /\ \A i \in 1..Len(prep_log) :
       prep_log[i].warned # {} =>
         /\ RestStillRemoved(prep_log[i])
         /\ (prep_log[i].idx < idx \/ pc \notin {"cd", "simulate"})
              => InvokedAt(prep_log[i].idx)
  /\ PrepareAborted => ~PreparedAt(idx)
  /\ Reported =>
       \A k \in 1..Len(modules) :
         k <= Len(runs) /\ (Len(modules[k]) # 0 => PreparedAt(k) /\ InvokedAt(k))

\* The removal of one log raised, the other log and a directory were removed,
\* the runner was started, and the run went on to the last module and the
\* summary.
C12_Witness ==
  /\ pc = "done"
  /\ Len(prep_log) = 2
  /\ prep_log[1].before = {A_TXT, B_LOG, WORK_DIR}
  /\ prep_log[1].warned = {A_TXT}
  /\ prep_log[1].after = {A_TXT}
  /\ Len(launches) = 2
  /\ launches[2].module = MOD_B

----------------------------------------------------------------------------
(* The order of the steps of a run *)

\* The entries of a history carry strictly increasing module positions.
Increasing(h) == \A i \in 1..(Len(h) - 1) : h[i].idx < h[i + 1].idx

\* C14: for each module in list order the steps are prepare, invoke,
\* accumulate: no module is prepared or invoked before the module ahead of it
\* has ended and been added, at most one runner is active, and the report
\* comes after the last module has been added.
C14_Sequential ==
  /\ Len(proc) <= 1
  /\ proc # <<>> <=> pc = "waiting"
  /\ Increasing(prep_log) /\ Increasing(launches)
  /\ \A k \in 1..Len(runs) : runs[k].idx = k
  /\ \A i \in 1..Len(prep_log) : Len(runs) >= prep_log[i].idx - 1
  /\ \A i \in 1..Len(launches) :
       /\ Len(runs) >= launches[i].idx - 1
       /\ PreparedAt(launches[i].idx)
  /\ \A k \in 1..Len(runs) :
       runs[k].kind \in {"runs", "noscript"} => LaunchedAt(k) /\ PreparedAt(k)
  /\ pc = "cd" => Len(runs) = idx - 1 /\ ~PreparedAt(idx) /\ ~LaunchedAt(idx)
  /\ pc = "simulate" => Len(runs) = idx - 1 /\ ~LaunchedAt(idx)
  /\ pc = "waiting" => Len(runs) = idx - 1 /\ PreparedAt(idx) /\ LaunchedAt(idx)
  /\ pc = "loop" => Len(runs) = idx /\ num_failing_tests = Aggregate
  /\ Reported =>
       /\ Len(runs) = Len(modules) /\ idx = Len(modules)
       /\ num_failing_tests = Aggregate
  /\ summary # <<>> => Reported /\ summary[1].arg = Aggregate

\* Three modules were prepared, invoked and added one after the other, and
\* the summary was printed.
C14_Witness ==
  /\ pc = "returned"
  /\ Len(modules) = 3
  /\ Len(prep_log) = 3 /\ Len(launches) = 3 /\ Len(runs) = 3
  /\ runs[1].status = 2 /\ runs[3].status = 3

----------------------------------------------------------------------------
(* Where a runner is started *)

INTERNAL_SCRIPT == <<"i","n","t","e","r","n","a","l","_","s","c","r","i","p","t">>
RUN_PY == <<"r","u","n",".","p","y">>

\* The workspace of a module and the runner script of a module, as
\* directories and a file under the repository root.
WorkspaceOf(module) == <<module, SIM>>
RunnerOf(module) == <<module, INTERNAL_SCRIPT, RUN_PY>>

\* C15: whenever a runner is started, whatever its position in the list and
\* whatever directories the modules before it left the process in, the
\* working directory is the workspace of that module and the script given
\* to the interpreter is the runner of that module.
C15_LaunchedInOwnWorkspace ==
  /\ \A i \in 1..Len(launches) :
       /\ launches[i].module = modules[launches[i].idx]
       /\ launches[i].cwd = WorkspaceOf(launches[i].module)
       /\ launches[i].script = RunnerOf(launches[i].module)
  /\ pc = "waiting" => cwd = WorkspaceOf(modules[idx])

\* Runners were started for a, then b, then a again, the last two from the
\* workspace the module before had left the process in.
C15_Witness ==
  /\ Len(launches) = 3
  /\ launches[1].module = MOD_A /\ launches[1].idx = 1
  /\ launches[2].module = MOD_B
  /\ launches[3].module = MOD_A
  /\ launches[3].cwd = <<MOD_A, SIM>>
  /\ pc = "waiting"

----------------------------------------------------------------------------
(* The runner scripts of the modules *)

MaxTests == 6

\* bitvis_vip_gmii/script/maintenance_script/test.py and
\* uvvm_vvc_framework/internal_script/run.py
TEST_PY == "test.py"
RUN_PY_VVC == "run.py"

\* sys.exit(arg) with an integer: the process exit status is its low 8 bits.
sys_exit(arg) == arg % 256

\* test.py: exit 1 when no test passed, else the number of failing tests.
test_py_status(num_passing, num_failing) ==
  IF num_passing = 0 THEN sys_exit(1) ELSE sys_exit(num_failing)

\* run.py: sys.exit(num_failing_tests), read from the Testbench.
run_py_status(num_failing) == sys_exit(num_failing)

\* A runner script whose simulations have ended, with the counters its
\* test framework reports.
InitRunner ==
  /\ config = <<>>
  /\ modules = <<>>
  /\ pc = "script"
  /\ idx = 0
  /\ num_failing_tests = 0
  /\ cwd = StartDir
  /\ fs = FsOf(W_NOSIM, W_NOSIM)
  /\ proc = <<>>
  /\ shown = <<>>
  /\ runs = <<>>
  /\ launches = <<>>
  /\ prep_log = <<>>
  /\ summary = <<>>
  /\ exit_status = <<>>
  /\ calls = 0
  /\ tests \in {<<[script |-> s, num_passing_tests |-> p, num_failing_tests |-> f]>> :
                  s \in {TEST_PY, RUN_PY_VVC}, p \in 0..MaxTests, f \in 0..MaxTests}
  /\ sims = <<>>
  /\ sim_log = <<>>
  /\ status_txt = <<>>

orch_vars == <<config, modules, idx, num_failing_tests, cwd, fs, proc, shown, runs,
               launches, prep_log, summary, calls>>

\* The last lines of test.py
TestPyExit ==
  /\ pc = "script"
  /\ tests[1].script = TEST_PY
  /\ exit_status' = <<test_py_status(tests[1].num_passing_tests,
                                     tests[1].num_failing_tests)>>
  /\ pc' = "exited"
  /\ UNCHANGED orch_vars
  /\ UNCHANGED script_vars

\* The last lines of run.py
RunPyExit ==
  /\ pc = "script"
  /\ tests[1].script = RUN_PY_VVC
  /\ exit_status' = <<run_py_status(tests[1].num_failing_tests)>>
  /\ pc' = "exited"
  /\ UNCHANGED orch_vars
  /\ UNCHANGED script_vars

NextRunner == TestPyExit \/ RunPyExit

SpecRunner == InitRunner /\ [][NextRunner]_vars

\* C16: a runner script ends with its failing-test count as exit status,
\* whatever the numbers of passing and failing tests; only a run of test.py
\* in which no test was executed ends with a non-zero status instead.
C16_ExitStatusIsFailingCount ==
  pc = "exited" =>
    LET t == tests[1]
    IN  IF t.num_passing_tests + t.num_failing_tests = 0
        THEN t.script = TEST_PY => exit_status[1] # 0
        ELSE exit_status = <<t.num_failing_tests>>

----------------------------------------------------------------------------
(* Termination *)

\* check_call is waiting for a runner that never ends.
Hung == pc = "waiting" /\ proc[1].kind = "hangs"

\* Starting a runner raised, which ended the run.
LaunchFailed ==
  pc = "aborted" /\ Len(runs) = idx /\ idx > 0 /\ runs[idx].kind = "oserror"

\* The run has stopped: the interpreter is not inside cd_to_module or at the
\* start of simulate_module, where a statement always comes next, and no
\* other step of main or of the runner is possible.
Stopped ==
  /\ pc \notin {"cd", "simulate"}
  /\ ~ENABLED (GetModuleList \/ Banner \/ RunnerExit \/ LoopExit
                 \/ PresentResults \/ Exit)

\* C17: a run can stop short of its summary only where a runner could not be
\* started or never ends; otherwise it goes on until the summary is printed
\* and the process ends. While a runner never ends the run stays where it
\* is: no later module is started and no summary is printed.
C17_EndsWithSummaryOrHangs ==
  /\ Stopped => (pc = "done" /\ summary # <<>>) \/ Hung \/ LaunchFailed
  /\ Hung =>
       /\ Stopped
       /\ summary = <<>>
       /\ \A i \in 1..Len(launches) : launches[i].idx <= idx

----------------------------------------------------------------------------
(* What a prepare may touch *)

\* The step prepares the workspace of module m: the directory is there
\* afterwards, nothing was added to it, and what is gone from it are entries
\* the glob lists directly under it.
CleansOwnWorkspace(m) ==
  /\ fs'[m].dir = "present"
  /\ fs'[m].entries \subseteq fs[m].entries
  /\ (fs[m].entries \ fs'[m].entries) \subseteq GlobStar(fs[m].entries)

C18_PrepareStep ==
  IF pc = "cd"
  THEN /\ \A d \in DirNames : d # modules[idx] => fs'[d] = fs[d]
       /\ pc' = "simulate" /\ Len(modules[idx]) # 0 => CleansOwnWorkspace(modules[idx])
  ELSE fs' = fs

\* C18: preparing the workspace of a module removes entries directly under
\* that workspace only, never the workspace directory, and leaves the
\* workspaces of all other modules as they were; no other step of the run
\* touches a workspace.
C18_PrepareFrame == [][C18_PrepareStep]_vars

\* Module b's workspace was prepared and a log removed from it, after
\* module a's, while a's workspace still holds what its own prepare left.
C18_Witness ==
  /\ Len(prep_log) = 2
  /\ prep_log[1].module = MOD_A /\ prep_log[1].warned = {A_TXT}
  /\ prep_log[2].module = MOD_B /\ prep_log[2].files = 1
  /\ fs[MOD_A].entries = {MPF_MIXED, A_TXT, HIDDEN}
  /\ fs[MOD_B].entries = {MPF_MIXED, HIDDEN}

----------------------------------------------------------------------------
(* A blank line in module_list.txt *)

\* The directory the process is in: where it started, or the workspace of
\* the last prepare.
DirAfterPrepares == IF prep_log = <<>> THEN StartDir ELSE LastPrep.dir

\* C20: a module entry with an empty name is counted in the banner like any
\* other, but no workspace is created or cleaned for it, the working
\* directory stays what it was, no runner is started, and it adds 0 to the
\* total; the modules after it are processed as usual.
C20_BlankEntrySkipped ==
  /\ pc \notin {"start", "harness", "script"} => cwd = DirAfterPrepares
  /\ \A k \in 1..idx :
       Len(modules[k]) = 0 =>
         /\ Len(shown) >= k
         /\ ~PreparedAt(k) /\ ~LaunchedAt(k)
         /\ k <= Len(runs) =>
              /\ runs[k].kind = "skipped" /\ runs[k].result = 0
              /\ SumStatuses(runs, k) = SumStatuses(runs, k - 1)
  /\ \A k \in 1..Len(runs) : runs[k].kind = "skipped" => Len(modules[k]) = 0
  /\ Reported =>
       \A k \in 1..Len(modules) :
         Len(modules[k]) # 0 => PreparedAt(k) /\ LaunchedAt(k) /\ runs[k].kind # "skipped"

\* A blank entry between two modules: three banners, two prepares, two
\* runners, and the total is that of the two modules.
C20_Witness ==
  /\ pc = "done"
  /\ modules = <<MOD_A, <<>>, MOD_B>>
  /\ Len(shown) = 3 /\ shown[2] = 2 /\ shown[3] = 2
  /\ Len(prep_log) = 2 /\ Len(launches) = 2
  /\ launches[2].idx = 3 /\ launches[2].cwd = <<MOD_B, SIM>>
  /\ runs[2].kind = "skipped"
  /\ summary[1].arg = 5

----------------------------------------------------------------------------
(* simulate_component.py of bitvis_vip_scoreboard *)

\* Texts are sequences of pieces; their concatenation is the text.
component == "bitvis_vip_scoreboard"
separation_line == "--------------------------------------------------"

MODELSIM == "Modelsim"
RIVIERA_PRO == "Riviera Pro"
DEMO == "Demo"

\* Return codes of the three simulations, and what they wrote to stderr.
ReturnCodes == {0, 1, 2}
ErrTexts == {"", "** Error: compile failed"}

\* The Logger of commons_library: log appends a message to what it holds,
\* get_log gives back all of it.
Logger == <<>>
Logger_log(held, msg) == held \o msg
Logger_get_log(held) == held

\* A slip: a failing simulation is logged without what it wrote to stderr.
phase_log_no_stderr(held, name, sim) ==
  IF sim.returncode = 0
  THEN Logger_log(held, <<"\n", name, " : PASS">>)
  ELSE Logger_log(held, <<"\n", name, " : FAILED">>)

\* What simulate() logs after one subprocess.run
phase_log(held, name, sim) ==
  IF sim.returncode = 0
  THEN Logger_log(held, <<"\n", name, " : PASS">>)
  ELSE Logger_log(Logger_log(held, <<"\n", name, " : FAILED">>),
                  <<"\n", sim.stderr>>)

\* A status.txt an earlier run wrote.
OldStatus ==
  <<"\n", component, "\n", separation_line, "\n", MODELSIM, " : FAILED", "\n", "old">>

InitComponent ==
  /\ config = <<>>
  /\ modules = <<>>
  /\ pc = "main"
  /\ idx = 0
  /\ num_failing_tests = 0
  /\ cwd = StartDir
  /\ fs = FsOf(W_NOSIM, W_NOSIM)
  /\ proc = <<>>
  /\ shown = <<>>
  /\ runs = <<>>
  /\ launches = <<>>
  /\ prep_log = <<>>
  /\ summary = <<>>
  /\ exit_status = <<>>
  /\ calls = 0
  /\ tests = <<>>
  /\ sims = <<>>
  /\ sim_log = <<>>
  /\ status_txt \in {<<>>, <<OldStatus>>}

\* main(): status.txt is removed if it is there, and opened with "w+".
ComponentMain ==
  /\ pc = "main"
  /\ status_txt' = <<<<>>>>
  /\ pc' = "simulate_begin"
  /\ UNCHANGED <<tests, sims, sim_log, exit_status>>
  /\ UNCHANGED orch_vars

\* simulate(): the Logger is made and given the component and the line.
SimulateBegin ==
  /\ pc = "simulate_begin"
  /\ sim_log' = Logger_log(Logger_log(Logger, <<"\n", component>>),
                           <<"\n", separation_line>>)
  /\ pc' = "modelsim"
  /\ UNCHANGED <<tests, sims, status_txt, exit_status>>
  /\ UNCHANGED orch_vars

\* One subprocess.run of simulate() and the logging of its outcome.
RunPhase(at, name, next) ==
  /\ pc = at
  /\ \E rc \in ReturnCodes, err \in ErrTexts :
       LET sim == [phase |-> name, returncode |-> rc, stderr |-> err]
       IN  /\ sims' = Append(sims, sim)
           /\ sim_log' = phase_log(sim_log, name, sim)
  /\ pc' = next
  /\ UNCHANGED <<tests, status_txt, exit_status>>
  /\ UNCHANGED orch_vars

SimulateModelsim == RunPhase("modelsim", MODELSIM, "riviera_pro")

SimulateRivieraPro == RunPhase("riviera_pro", RIVIERA_PRO, "demo")

SimulateDemo == RunPhase("demo", DEMO, "write")

\* subprocess.run cannot start "py": it raises, nothing catches it, and the
\* run is not completed; status.txt stays as opened.
SimulateRaises ==
  /\ pc \in {"modelsim", "riviera_pro", "demo"}
  /\ Raise
  /\ UNCHANGED script_vars
  /\ UNCHANGED orch_vars

\* return sim_log.get_log(); status.write(...); status.close()
ComponentWrite ==
  /\ pc = "write"
  /\ status_txt' = <<status_txt[1] \o Logger_get_log(sim_log)>>
  /\ pc' = "completed"
  /\ UNCHANGED <<tests, sims, sim_log, exit_status>>
  /\ UNCHANGED orch_vars

NextComponent ==
  \/ ComponentMain
  \/ SimulateBegin
  \/ SimulateModelsim
  \/ SimulateRivieraPro
  \/ SimulateDemo
  \/ SimulateRaises
  \/ ComponentWrite

SpecComponent == InitComponent /\ [][NextComponent]_vars

\* The outcome of one sub-phase as the status file is to show it.
OutcomeText(name, sim) ==
  IF sim.returncode = 0
  THEN <<"\n", name, " : PASS">>
  ELSE <<"\n", name, " : FAILED", "\n", sim.stderr>>

\* C19: after a completed run status.txt holds the log of that run and
\* nothing else: the heading, then one outcome for each of Modelsim, Riviera
\* Pro and Demo in that order, PASS exactly when the return code was 0 and
\* otherwise FAILED followed by the captured stderr; all three were run,
\* whatever the ones before returned.
C19_StatusFileIsRunLog ==
  pc = "completed" =>
    /\ Len(sims) = 3
    /\ sims[1].phase = MODELSIM /\ sims[2].phase = RIVIERA_PRO /\ sims[3].phase = DEMO
    /\ status_txt = << <<"\n", component, "\n", separation_line>>
                         \o OutcomeText(MODELSIM, sims[1])
                         \o OutcomeText(RIVIERA_PRO, sims[2])
                         \o OutcomeText(DEMO, sims[3]) >>

\* Modelsim failed, Riviera Pro passed, Demo failed, and the file shows it.
C19_Witness ==
  /\ pc = "completed"
  /\ sims[1].returncode = 2 /\ sims[1].stderr # ""
  /\ sims[2].returncode = 0
  /\ sims[3].returncode = 1
  /\ Len(status_txt[1]) = 17

====
